---- MODULE Spec2Model ----
(***************************************************************************)
(* Model of cses-go-runner: the execution harness (TestRunner.runTests,    *)
(* TestExecutor.Execute), the run pipeline (TestRunner.Run), the fixture   *)
(* fetcher (TestCaseFetcher.FetchTestCases) and the authenticator          *)
(* (CSESAuth.EnsureAuthenticated).                                         *)
(*                                                                         *)
(* Texts are sequences of one-character tokens.  Durations are not         *)
(* modelled: a deadline is an event that may happen at any moment between  *)
(* the creation of a unit's context and its cancellation.                  *)
(***************************************************************************)
EXTENDS Integers, Sequences, FiniteSets, TLC

\* ------------------------------------------------------------------ bounds
NumTests == 2
MaxParallel == 2

\* ------------------------------------------------------------- characters
SP == "SP"
TAB == "TAB"
CR == "CR"
LF == "LF"
VT == "VT"

\* strings.TrimRight(line, " \t\r") cutset
LineCutset == {SP, TAB, CR}
\* unicode.IsSpace, restricted to the alphabet of the model
UnicodeSpace == {SP, TAB, CR, LF, VT}

\* ---------------------------------------------------- text normalisation
RECURSIVE Split(_, _)
\* strings.Split(s, sep) for a one-character sep: always at least one piece
Split(s, sep) ==
    IF \A k \in 1..Len(s) : s[k] # sep
    THEN <<s>>
    ELSE LET k == CHOOSE j \in 1..Len(s) :
                      s[j] = sep /\ \A m \in 1..(j - 1) : s[m] # sep
         IN <<SubSeq(s, 1, k - 1)>> \o Split(SubSeq(s, k + 1, Len(s)), sep)

RECURSIVE TrimRight(_, _)
TrimRight(s, cutset) ==
    IF Len(s) > 0 /\ s[Len(s)] \in cutset
    THEN TrimRight(SubSeq(s, 1, Len(s) - 1), cutset)
    ELSE s

RECURSIVE TrimLeft(_, _)
TrimLeft(s, cutset) ==
    IF Len(s) > 0 /\ s[1] \in cutset
    THEN TrimLeft(SubSeq(s, 2, Len(s)), cutset)
    ELSE s

\* mutant: one white-space character is cut at each end
TrimSpaceOnce(s) ==
    LET r == IF Len(s) > 0 /\ s[Len(s)] \in UnicodeSpace
             THEN SubSeq(s, 1, Len(s) - 1) ELSE s
    IN IF Len(r) > 0 /\ r[1] \in UnicodeSpace THEN SubSeq(r, 2, Len(r)) ELSE r

\* strings.TrimSpace
TrimSpace(s) == TrimLeft(TrimRight(s, UnicodeSpace), UnicodeSpace)

RECURSIVE Join(_, _)
\* strings.Join(lines, sep)
Join(lines, sep) ==
    IF Len(lines) = 0 THEN <<>>
    ELSE IF Len(lines) = 1 THEN lines[1]
    ELSE lines[1] \o <<sep>> \o Join(Tail(lines), sep)

normalizeOutput(output) ==
    LET lines == Split(output, LF)
        normalizedLines == [k \in 1..Len(lines) |-> TrimRight(lines[k], LineCutset)]
    IN TrimSpace(Join(normalizedLines, LF))

\* mutant: the texts are compared without their white space
compareOutputsFields(actual, expected) ==
    SelectSeq(actual, LAMBDA c : c \notin UnicodeSpace)
       = SelectSeq(expected, LAMBDA c : c \notin UnicodeSpace)

\* mutant: the two texts are compared as they are
compareOutputsRaw(actual, expected) == actual = expected

compareOutputs(actual, expected) ==
    normalizeOutput(actual) = normalizeOutput(expected)


\* ------------------------------------------------------------- fixtures
DecimalDigits == <<"0", "1", "2", "3", "4", "5", "6", "7", "8", "9">>

RECURSIVE Itoa(_)
\* fmt.Sprintf("%d", n) for n >= 0: the decimal digits of n
Itoa(n) ==
    IF n < 10 THEN <<DecimalDigits[n + 1]>>
    ELSE Itoa(n \div 10) \o <<DecimalDigits[(n % 10) + 1]>>

\* TestCase{Input, Expected, Number}: fixture n reads n and must print n
TestCase(n) == [Number |-> n, Input |-> Itoa(n) \o <<LF>>, Expected |-> Itoa(n) \o <<LF>>]

\* what a child process may write on stdout for fixture tc: the expected
\* text, the expected text with trailing blanks and blank lines, another text
Outputs(tc) ==
    { tc.Expected,
      <<tc.Expected[1], SP, CR, LF, LF>>,
      <<"0", LF>> }

Stderrs == { <<>>, <<"E">> }

\* ------------------------------------------------------------ variables
VARIABLES
    parallel,      \* Config.Parallel
    testCases,     \* the fixture sequence handed to runTests
    pc,            \* position of the calling goroutine (Run / runTests)
    results,       \* runTests: results slice
    semaphore,     \* runTests: number of tokens in the semaphore channel
    wg,            \* runTests: sync.WaitGroup counter
    progressChan,  \* runTests: number of buffered progress messages
    completed,     \* progress reporter goroutine: its counter
    unit,          \* per fixture goroutine: its position
    ctx,           \* per fixture goroutine: its deadline context
    child,         \* per fixture goroutine: its child process
    ret,           \* per fixture goroutine: what runGoProgram returned
    gateOps,       \* history: per unit, slot acquisitions and releases
    slotOps,       \* history: per index of results, its writers and its reads
    deadlineFired, \* history: the units whose own deadline has elapsed
    runTestsRet,   \* what runTests returned to Run
    sessionFile,   \* Session Store: the persisted session file
    rAuth,         \* TestRunner.auth.sessionData
    fAuth,         \* TestCaseFetcher.auth.sessionData
    cache,         \* Fixture Cache: the directory of the problem
    net,           \* history: the network requests sent, by kind
    fetchInfo,     \* history: what the FetchTestCases call met and did
    failures,      \* history: the steps of Run that returned an error
    runErr,        \* what Run returned
    config,        \* Config: ForceAuth, CacheDir, and main's *cacheDir flag value
    call           \* history: the latest command or call on the stores

harnessVars == <<parallel, testCases, results, semaphore, wg, progressChan,
                 completed, unit, ctx, child, ret, gateOps, slotOps, deadlineFired,
                 runTestsRet>>
pipeVars == <<sessionFile, rAuth, fAuth, cache, net, fetchInfo, failures, runErr>>
cmdVars == <<config, call>>
vars == <<pc, harnessVars, pipeVars, cmdVars>>

Units == 1..Len(testCases)

\* --------------------------------------------------------- child process
NoChild == [kind |-> "none", code |-> 0, stdout |-> <<>>, stderr |-> <<>>]
Running == [kind |-> "running", code |-> 0, stdout |-> <<>>, stderr |-> <<>>]
\* the child was killed by the deadline: Wait reports a signal, ExitCode() = -1
Killed == [kind |-> "killed", code |-> -1, stdout |-> <<>>, stderr |-> <<>>]
\* exec could not start the child (fork/exec error): no process exists
SpawnFailed == [kind |-> "spawnfail", code |-> 0, stdout |-> <<>>, stderr |-> <<>>]
\* cmd.Start found the context done already and started nothing
NotStarted == [kind |-> "ctxdone", code |-> 0, stdout |-> <<>>, stderr |-> <<>>]

\* the ways a child may end by itself
ExitOutcomes(tc) ==
    { [kind |-> "exited", code |-> 0, stdout |-> o, stderr |-> <<>>] : o \in Outputs(tc) }
    \cup
    { [kind |-> "exited", code |-> 1, stdout |-> <<>>, stderr |-> e] : e \in Stderrs }

\* ---------------------------------------------------------------- errors
NoError == [msg |-> "", code |-> 0, detail |-> <<>>]
ErrTimeout == [msg |-> "timeout exceeded", code |-> 0, detail |-> <<>>]
ErrRuntime(code, stderr) == [msg |-> "runtime error", code |-> code, detail |-> stderr]
ErrExecution(code) == [msg |-> "execution failed", code |-> code, detail |-> <<>>]
ErrMismatch == [msg |-> "Output mismatch", code |-> 0, detail |-> <<>>]

\* cmd.Run's error for a child c, the unit's context being expired or not.
\* lateKill: the deadline fired after the child had exited with code 0 but
\* before it was reaped, and the kill of the watcher goroutine succeeded;
\* os/exec then reports the context's error (Go >= 1.20) or nil (Go 1.19).
cmdRun(c, expired, lateKill) ==
    CASE c.kind = "ctxdone" -> "ctx"
      [] c.kind = "spawnfail" -> "start"
      [] c.kind = "killed" -> "exit"
      [] c.kind = "exited" /\ c.code # 0 -> "exit"
      [] OTHER -> IF expired /\ lateKill THEN "ctx" ELSE "nil"

runGoProgram(c, expired, lateKill) ==
    LET err == cmdRun(c, expired, lateKill)
        exitCode == IF err = "exit" THEN c.code ELSE 0
    IN IF err # "nil"
       THEN IF expired
            THEN [out |-> <<>>, code |-> exitCode, err |-> ErrTimeout]
            ELSE IF Len(c.stderr) > 0
            THEN [out |-> <<>>, code |-> exitCode, err |-> ErrRuntime(exitCode, c.stderr)]
            ELSE [out |-> <<>>, code |-> exitCode, err |-> ErrExecution(exitCode)]
       ELSE [out |-> c.stdout, code |-> exitCode, err |-> NoError]

\* the zero TestResult
ZeroResult ==
    [TestNumber |-> 0, Passed |-> FALSE, Error |-> NoError, ActualOutput |-> <<>>,
     ExpectedOutput |-> <<>>, InputFile |-> 0, ExpectedFile |-> 0, ExitCode |-> 0]

\* Execute, given what runGoProgram returned (r)
Execute(r, testCase, testNumber) ==
    LET result == [TestNumber |-> testNumber, Passed |-> FALSE, Error |-> NoError,
                   ActualOutput |-> r.out, ExpectedOutput |-> testCase.Expected,
                   InputFile |-> testCase.Number, ExpectedFile |-> testCase.Number,
                   ExitCode |-> r.code]
    IN IF r.err # NoError
       THEN [result EXCEPT !.Error = r.err]
       ELSE IF compareOutputs(r.out, testCase.Expected)
            THEN [result EXCEPT !.Passed = TRUE]
            ELSE [result EXCEPT !.Error = ErrMismatch]


\* --------------------------------------------------------------- runTests
\* mutant: the result is appended in completion order
StoreResultAppend(res, index, r) ==
    LET free == {k \in 1..Len(res) : res[k] = ZeroResult}
        k == IF free = {} THEN index ELSE CHOOSE m \in free : \A n \in free : m <= n
    IN [res EXCEPT ![k] = r]

\* results[index] = result
StoreResult(res, index, r) == [res EXCEPT ![index] = r]

\* mutant: nothing bounds the number of admitted units
CanSendUnbounded(tokens, capacity) == TRUE

\* semaphore <- struct{}{} can proceed: a buffered channel takes a value
\* while it is not full; with capacity 0 a send needs a waiting receiver,
\* and the only receives on semaphore are the deferred ones of admitted units
CanSend(tokens, capacity) == tokens < capacity

\* mutant: the slot is given back on the paths without an error only
ReleaseSlotOnSuccess(tokens, r) == IF r.Error = ErrTimeout THEN tokens ELSE tokens - 1

\* defer func() { <-semaphore }()
ReleaseSlot(tokens, r) == tokens - 1

\* mutant: one deadline context shared by all units
DeadlineScopeShared(i) == Units

\* context.WithTimeout(context.Background(), ...) inside the goroutine: the
\* units a deadline event of unit i reaches
DeadlineScope(i) == {i}

\* mutant: the deadline context is made in the loop, before the goroutine
\* waits for its slot
ContextArmedAtSpawn(i) == "armed"

\* go func(index, tc): the goroutine has no deadline context until it has
\* passed semaphore <- struct{}{} and called context.WithTimeout
ContextAtSpawn(i) == "none"

\* make(chan struct{}, n) panics for n < 0
runTestsBegin ==
    /\ pc = "runTests"
    /\ IF parallel < 0
       THEN /\ pc' = "panic"
            /\ UNCHANGED <<cmdVars, harnessVars, pipeVars>>
       ELSE /\ pc' = "wait"
            /\ results' = [i \in Units |-> ZeroResult]
            /\ semaphore' = 0
            /\ wg' = Len(testCases)
            /\ progressChan' = 0
            /\ completed' = 0
            /\ unit' = [i \in Units |-> "pending"]
            /\ ctx' = [i \in Units |-> ContextAtSpawn(i)]
            /\ child' = [i \in Units |-> NoChild]
            /\ ret' = [i \in Units |-> [out |-> <<>>, code |-> 0, err |-> NoError]]
            /\ gateOps' = [i \in Units |-> [acquired |-> 0, released |-> 0]]
            /\ slotOps' = [k \in Units |-> [writers |-> <<>>, reads |-> 0, early |-> 0]]
            /\ deadlineFired' = {}
            /\ UNCHANGED <<cmdVars, parallel, testCases, runTestsRet, pipeVars>>

\* semaphore <- struct{}{} ; ctx, cancel := context.WithTimeout(...)
Acquire(i) ==
    /\ pc = "wait"
    /\ unit[i] = "pending"
    /\ CanSend(semaphore, parallel)
    /\ semaphore' = semaphore + 1
    /\ gateOps' = [gateOps EXCEPT ![i].acquired = @ + 1]
    /\ ctx' = [ctx EXCEPT ![i] = "armed"]
    /\ unit' = [unit EXCEPT ![i] = "admitted"]
    /\ UNCHANGED <<cmdVars, pipeVars, pc, parallel, testCases, results, wg, progressChan, completed,
                   child, ret, slotOps, deadlineFired, runTestsRet>>

\* the deadline of unit i elapses: its context is done, and exec's watcher
\* kills the child if it is running
DeadlineFire(i) ==
    /\ pc = "wait"
    /\ ctx[i] = "armed"
    /\ LET hit == {j \in DeadlineScope(i) : ctx[j] = "armed"}
       IN /\ ctx' = [j \in Units |-> IF j \in hit THEN "expired" ELSE ctx[j]]
          /\ child' = [j \in Units |->
                          IF j \in hit /\ child[j] = Running THEN Killed ELSE child[j]]
    /\ deadlineFired' = deadlineFired \cup {i}
    /\ UNCHANGED <<cmdVars, pipeVars, pc, parallel, testCases, results, semaphore, wg, progressChan,
                   completed, unit, ret, gateOps, slotOps, runTestsRet>>

\* Execute -> runGoProgram -> cmd.Run -> cmd.Start
Start(i) ==
    /\ pc = "wait"
    /\ unit[i] = "admitted"
    /\ \E c \in (IF ctx[i] = "expired" THEN {NotStarted} ELSE {Running, SpawnFailed}) :
           child' = [child EXCEPT ![i] = c]
    /\ unit' = [unit EXCEPT ![i] = "inRun"]
    /\ UNCHANGED <<cmdVars, pipeVars, pc, parallel, testCases, results, semaphore, wg, progressChan,
                   completed, ctx, ret, gateOps, slotOps, deadlineFired, runTestsRet>>

\* the child process of unit i ends by itself
ChildExit(i) ==
    /\ pc = "wait"
    /\ child[i] = Running
    /\ \E o \in ExitOutcomes(testCases[i]) : child' = [child EXCEPT ![i] = o]
    /\ UNCHANGED <<cmdVars, pipeVars, pc, parallel, testCases, results, semaphore, wg, progressChan,
                   completed, unit, ctx, ret, gateOps, slotOps, deadlineFired, runTestsRet>>

\* cmd.Run returns; runGoProgram and Execute return; results[index] = result;
\* progressChan <- 1 (buffered for len(testCases) messages: never blocks);
\* then the deferred calls, last first: cancel(), <-semaphore, wg.Done().
\* None of these steps can block and no other goroutine can tell them apart,
\* so they are one step.
Finish(i) ==
    /\ pc = "wait"
    /\ unit[i] = "inRun"
    /\ child[i] # Running
    /\ \E lateKill \in BOOLEAN :
          LET r == runGoProgram(child[i], ctx[i] = "expired", lateKill)
              result == Execute(r, testCases[i], i)
          IN /\ ret' = [ret EXCEPT ![i] = r]
             /\ results' = StoreResult(results, i, result)
             /\ semaphore' = ReleaseSlot(semaphore, result)
    /\ progressChan' = progressChan + 1
    /\ ctx' = [ctx EXCEPT ![i] = IF @ = "armed" THEN "canceled" ELSE @]
    /\ gateOps' = [gateOps EXCEPT ![i].released = @ + (semaphore - semaphore')]
    /\ slotOps' = [k \in Units |->
                      IF results'[k] # results[k]
                      THEN [slotOps[k] EXCEPT !.writers = Append(@, i)]
                      ELSE slotOps[k]]
    /\ wg' = wg - 1
    /\ unit' = [unit EXCEPT ![i] = "done"]
    /\ UNCHANGED <<cmdVars, pipeVars, pc, parallel, testCases, completed, child, deadlineFired,
                   runTestsRet>>

\* mutant: the caller does not wait for the units
WaitReturnsAtOnce(counter) == TRUE

\* wg.Wait() returns when the counter is zero
WaitReturns(counter) == counter = 0

\* the progress reporter goroutine: for range progressChan { completed++ }
Report ==
    /\ pc \in {"wait", "runTestsDone"}
    /\ progressChan > 0
    /\ progressChan' = progressChan - 1
    /\ completed' = completed + 1
    /\ UNCHANGED <<cmdVars, pipeVars, pc, parallel, testCases, results, semaphore, wg, unit, ctx, child,
                   ret, gateOps, slotOps, deadlineFired, runTestsRet>>

\* wg.Wait() ; close(progressChan) ; return results
runTestsReturn ==
    /\ pc = "wait"
    /\ WaitReturns(wg)
    /\ pc' = "runTestsDone"
    /\ runTestsRet' = results
    /\ slotOps' = [k \in Units |->
                      [slotOps[k] EXCEPT !.reads = @ + 1,
                                         !.early = @ + (IF \A j \in Units : unit[j] = "done"
                                                        THEN 0 ELSE 1)]]
    /\ UNCHANGED <<cmdVars, pipeVars, parallel, testCases, results, semaphore, wg,
                   progressChan, completed, unit, ctx, child, ret, gateOps,
                   deadlineFired>>

HarnessStep ==
    \/ runTestsBegin
    \/ \E i \in Units : Acquire(i)
    \/ \E i \in Units : DeadlineFire(i)
    \/ \E i \in Units : Start(i)
    \/ \E i \in Units : ChildExit(i)
    \/ \E i \in Units : Finish(i)
    \/ Report
    \/ runTestsReturn

\* ---------------------------------------------------------- Session Store
\* 24*time.Hour, in hours
FreshnessWindow == 24

\* *SessionData; Age is time.Since(CreatedAt) in hours
NilSession == [set |-> FALSE, PHPSessionID |-> "", CSRFToken |-> "", Age |-> 0]
Session(id, tok, age) ==
    [set |-> TRUE, PHPSessionID |-> id, CSRFToken |-> tok, Age |-> age]

\* the session file: absent, unreadable, not JSON, or a stored record
NoFile == [state |-> "absent", data |-> NilSession]
Unreadable == [state |-> "unreadable", data |-> NilSession]
Malformed == [state |-> "malformed", data |-> NilSession]
Stored(sd) == [state |-> "ok", data |-> sd]

\* a is the authenticator's sessionData
LoadSession(a, file) ==
    CASE file.state = "absent" ->
            [err |-> "session file does not exist", sessionData |-> a]
      [] file.state = "unreadable" ->
            [err |-> "failed to read session file", sessionData |-> a]
      [] file.state = "malformed" ->
            [err |-> "failed to parse session data", sessionData |-> a]
      [] OTHER -> [err |-> "nil", sessionData |-> file.data]

\* mutant: any loaded session counts as valid
HasValidSessionAny(a) == a.set

HasValidSession(a) ==
    IF ~a.set THEN FALSE
    ELSE IF a.Age > FreshnessWindow THEN FALSE
    ELSE a.PHPSessionID # "" /\ a.CSRFToken # ""

\* ------------------------------------------------------ network requests
NoRequests == [probe |-> 0, loginGET |-> 0, loginPOST |-> 0, download |-> 0]
AddRequests(n, m) ==
    [probe |-> n.probe + m.probe, loginGET |-> n.loginGET + m.loginGET,
     loginPOST |-> n.loginPOST + m.loginPOST, download |-> n.download + m.download]

\* what the remote service and the environment may do during one call
ProbeReplies == {"ok", "transport", "status", "pleaseLogin"}
Credentials == {"both", "noUsername", "noPassword"}
PageReplies == {"ok", "transport", "status", "noToken", "noCookie"}
PostReplies == {"ok", "transport", "status", "redirectLogin", "errorBody"}
SaveOutcomes == {"ok", "mkdirFails", "writeFails"}
\* an environment gives the answers one call of EnsureAuthenticated or of
\* Login can ask for: a step after a failed one is never reached, so its
\* answer is left at "ok"
AuthEnvs ==
    { e \in [probe : ProbeReplies, creds : Credentials, page : PageReplies,
             post : PostReplies, save : SaveOutcomes] :
         /\ e.creds # "both" => e.page = "ok"
         /\ e.page # "ok" => e.post = "ok"
         /\ e.post # "ok" => e.save = "ok" }

\* GET /problemset/stats with the session cookie
TestSession(a, probe) ==
    IF ~a.set THEN [err |-> "no session data", sent |-> NoRequests]
    ELSE [err |-> CASE probe = "transport" -> "failed to execute test request"
                    [] probe = "status" -> "error in making test session request"
                    [] probe = "pleaseLogin" -> "login expired, need to relogin"
                    [] OTHER -> "nil",
          sent |-> [NoRequests EXCEPT !.probe = 1]]

\* the session the remote service hands out at a login
NewSession == Session("s1", "t1", 0)

\* the response to GET /login: the value of the csrf_token input of the page
\* ("" when the page has none) and of the PHPSESSID cookie ("" when absent)
LoginPage(page) ==
    [failed |-> page = "transport",
     StatusCode |-> IF page = "status" THEN 500 ELSE 200,
     token |-> IF page = "noToken" THEN "" ELSE NewSession.CSRFToken,
     cookie |-> IF page = "noCookie" THEN "" ELSE NewSession.PHPSessionID]

\* both patterns capture a non-empty value only
extractCSRFToken(html) ==
    IF html.token # "" THEN [err |-> "nil", token |-> html.token]
    ELSE [err |-> "CSRF token not found in login page", token |-> ""]

extractPHPSessionID(resp) == resp.cookie

\* mutant: the extracted values are not checked
FetchLoginPageOpen(page) ==
    LET resp == LoginPage(page)
    IN IF resp.failed
       THEN [err |-> "failed to fetch login page", csrfToken |-> "", phpSessionID |-> ""]
       ELSE IF resp.StatusCode # 200
       THEN [err |-> "login page returned status", csrfToken |-> "", phpSessionID |-> ""]
       ELSE [err |-> "nil", csrfToken |-> resp.token, phpSessionID |-> resp.cookie]

\* GET /login, extractCSRFToken, extractPHPSessionID
FetchLoginPage(page) ==
    LET resp == LoginPage(page)
        fail(e) == [err |-> e, csrfToken |-> "", phpSessionID |-> ""]
    IN IF resp.failed THEN fail("failed to fetch login page")
       ELSE IF resp.StatusCode # 200 THEN fail("login page returned status")
       ELSE IF extractCSRFToken(resp).err # "nil"
       THEN fail("failed to extract CSRF token")
       ELSE IF extractPHPSessionID(resp) = ""
       THEN fail("failed to extract PHP session ID from cookies")
       ELSE [err |-> "nil", csrfToken |-> extractCSRFToken(resp).token,
             phpSessionID |-> extractPHPSessionID(resp)]

\* client.Do(POST /login) and validateLoginResponse
PostLogin(post) ==
    CASE post = "transport" -> "failed to create login request"
      [] post = "status" -> "login validation failed: expected status 302 or 200"
      [] post = "redirectLogin" -> "login validation failed: invalid credentials"
      [] post = "errorBody" -> "login validation failed: invalid credentials"
      [] OTHER -> "nil"

\* SaveSession: MkdirAll, MarshalIndent, WriteFile
SaveSession(a, file, save) ==
    IF ~a.set THEN [err |-> "no session data to save", file |-> file]
    ELSE IF save = "mkdirFails"
    THEN [err |-> "failed to create session directory", file |-> file]
    ELSE IF save = "writeFails"
    THEN [err |-> "failed to write session file", file |-> file]
    ELSE [err |-> "nil", file |-> Stored(a)]

\* mutant: the password is not looked at
GetCredentialsUsernameOnly(creds) ==
    IF creds = "noUsername" THEN "CSES_USERNAME environment variable is not set"
    ELSE "nil"

GetCredentials(creds) ==
    CASE creds = "noUsername" -> "CSES_USERNAME environment variable is not set"
      [] creds = "noPassword" -> "CSES_PASSWORD environment variable is not set"
      [] OTHER -> "nil"

Login(a, file, env) ==
    LET fetched == FetchLoginPage(env.page)
        created == Session(fetched.phpSessionID, fetched.csrfToken, 0)
    IN IF GetCredentials(env.creds) # "nil"
       THEN [err |-> "credential error", sessionData |-> a, file |-> file,
             sent |-> NoRequests]
       ELSE IF fetched.err # "nil"
       THEN [err |-> "failed to fetch login page", sessionData |-> a, file |-> file,
             sent |-> [NoRequests EXCEPT !.loginGET = 1]]
       ELSE IF PostLogin(env.post) # "nil"
       THEN [err |-> PostLogin(env.post), sessionData |-> a, file |-> file,
             sent |-> [NoRequests EXCEPT !.loginGET = 1, !.loginPOST = 1]]
       ELSE LET saved == SaveSession(created, file, env.save)
            IN [err |-> IF saved.err # "nil" THEN "failed to save session" ELSE "nil",
                sessionData |-> created, file |-> saved.file,
                sent |-> [NoRequests EXCEPT !.loginGET = 1, !.loginPOST = 1]]

\* mutant: a session file that cannot be loaded fails the call
EnsureAuthenticatedStrict(a, file, env) ==
    LET loaded == LoadSession(a, file)
        probed == TestSession(loaded.sessionData, env.probe)
        l == Login(loaded.sessionData, file, env)
    IN IF loaded.err # "nil"
       THEN [err |-> loaded.err, sessionData |-> a, file |-> file,
             sent |-> NoRequests, calls |-> {}]
       ELSE IF HasValidSession(loaded.sessionData) /\ probed.err = "nil"
       THEN [err |-> "nil", sessionData |-> loaded.sessionData, file |-> file,
             sent |-> probed.sent, calls |-> {"TestSession"}]
       ELSE [err |-> l.err, sessionData |-> l.sessionData, file |-> l.file,
             sent |-> IF HasValidSession(loaded.sessionData)
                      THEN AddRequests(probed.sent, l.sent) ELSE l.sent,
             calls |-> IF HasValidSession(loaded.sessionData)
                       THEN {"TestSession", "Login"} ELSE {"Login"}]

EnsureAuthenticated(a, file, env) ==
    LET loaded == LoadSession(a, file)
        probed == TestSession(loaded.sessionData, env.probe)
        tested == loaded.err = "nil" /\ HasValidSession(loaded.sessionData)
    IN IF tested /\ probed.err = "nil"
       THEN [err |-> "nil", sessionData |-> loaded.sessionData, file |-> file,
             sent |-> probed.sent, calls |-> {"TestSession"}]
       ELSE LET l == Login(loaded.sessionData, file, env)
            IN [err |-> l.err, sessionData |-> l.sessionData, file |-> l.file,
                sent |-> IF tested THEN AddRequests(probed.sent, l.sent) ELSE l.sent,
                calls |-> IF tested THEN {"TestSession", "Login"} ELSE {"Login"}]

\* ------------------------------------------------------------ downloads
\* the largest ordinal of an archive entry or of a cached file
MaxOrdinal == 1

\* an archive: the ordinals of its input entries and of its output entries
Archives == [ins : SUBSET (1..MaxOrdinal), outs : SUBSET (1..MaxOrdinal)]
NoArchive == [ins |-> {}, outs |-> {}]

\* what the remote service answers to POST /problemset/tests/<id>/
DownloadReplies == {"zip", "empty", "badType", "status", "redirectLogin", "transport"}

\* a.client.Do(req): the client of NewCSESAuth sets no CheckRedirect, so
\* net/http follows a 302 to /login and hands back the login page
clientDo(reply) ==
    CASE reply = "transport" ->
            [failed |-> TRUE, StatusCode |-> 0, Location |-> "", ContentType |-> "",
             empty |-> TRUE]
      [] reply = "redirectLogin" ->
            [failed |-> FALSE, StatusCode |-> 200, Location |-> "",
             ContentType |-> "text/html", empty |-> FALSE]
      [] reply = "status" ->
            [failed |-> FALSE, StatusCode |-> 500, Location |-> "",
             ContentType |-> "text/html", empty |-> FALSE]
      [] reply = "badType" ->
            [failed |-> FALSE, StatusCode |-> 200, Location |-> "",
             ContentType |-> "text/html", empty |-> FALSE]
      [] reply = "empty" ->
            [failed |-> FALSE, StatusCode |-> 200, Location |-> "",
             ContentType |-> "application/zip", empty |-> TRUE]
      [] OTHER ->
            [failed |-> FALSE, StatusCode |-> 200, Location |-> "",
             ContentType |-> "application/zip", empty |-> FALSE]

DownloadTestCases(a, reply, archive) ==
    IF ~a.set THEN [err |-> "no session data", zipData |-> NoArchive, sent |-> NoRequests]
    ELSE LET resp == clientDo(reply)
             sent == [NoRequests EXCEPT !.download = 1]
             fail(e) == [err |-> e, zipData |-> NoArchive, sent |-> sent]
         IN IF resp.failed
            THEN fail("failed to execute test case download request")
            ELSE IF resp.StatusCode = 302 /\ resp.Location = "/login"
            THEN fail("session expired, requires re-authentication")
            ELSE IF resp.StatusCode # 200
            THEN fail("failed to download test cases: HTTP")
            ELSE IF resp.ContentType \notin {"application/zip", "application/octet-stream"}
            THEN fail("expected ZIP file, got content type")
            ELSE IF resp.empty
            THEN fail("received empty ZIP file")
            ELSE [err |-> "nil", zipData |-> archive, sent |-> sent]

RECURSIVE Orders(_)
\* the sequences a range over a Go map with the keys S can produce
Orders(S) ==
    IF S = {} THEN {<<>>}
    ELSE UNION { { <<n>> \o p : p \in Orders(S \ {n}) } : n \in S }

\* mutant: every input entry gives a fixture, matched or not
extractEveryInput(zipData) ==
    IF zipData.ins = {}
    THEN { [err |-> "no valid test cases found in zip file", testCases |-> <<>>] }
    ELSE { [err |-> "nil", testCases |-> [k \in 1..Len(o) |-> TestCase(o[k])]] :
              o \in Orders(zipData.ins) }

\* extractTestCasesFromZip: the results it can give (one per map order)
extractTestCasesFromZip(zipData) ==
    LET matched == zipData.ins \cap zipData.outs
    IN IF matched = {}
       THEN { [err |-> "no valid test cases found in zip file", testCases |-> <<>>] }
       ELSE { [err |-> "nil", testCases |-> [k \in 1..Len(o) |-> TestCase(o[k])]] :
                 o \in Orders(matched) }

\* ---------------------------------------------------------- Fixture Cache
\* the directory of a problem: absent, or the set of its files
NoDir == [exists |-> FALSE, files |-> {}]
File(n, ext, data) == [stem |-> n, ext |-> ext, data |-> data]
PairFiles(n) == { File(n, "in", TestCase(n).Input), File(n, "out", TestCase(n).Expected) }
Dir(files) == [exists |-> TRUE, files |-> files]

\* some ordinal has both its input file and its output file
HasCompletePair(dir) ==
    /\ dir.exists
    /\ \E f, g \in dir.files : f.ext = "in" /\ g.ext = "out" /\ f.stem = g.stem

\* the name of a cache file: "<stem>.in" or "<stem>.out"
FileName(stem, ext) ==
    Itoa(stem) \o <<".">> \o (IF ext = "in" THEN <<"i", "n">> ELSE <<"o", "u", "t">>)

\* the byte of a character of a file name
CharCode(c) ==
    CASE c = "." -> 46
      [] c = "i" -> 105
      [] c = "n" -> 110
      [] c = "o" -> 111
      [] c = "t" -> 116
      [] c = "u" -> 117
      [] OTHER -> 47 + (CHOOSE d \in 1..10 : DecimalDigits[d] = c)

RECURSIVE NameLess(_, _)
\* a < b as Go strings (byte-wise)
NameLess(a, b) ==
    IF b = <<>> THEN FALSE
    ELSE IF a = <<>> THEN TRUE
    ELSE IF Head(a) # Head(b) THEN CharCode(Head(a)) < CharCode(Head(b))
    ELSE NameLess(Tail(a), Tail(b))

RECURSIVE ReadDirOrder(_)
\* os.ReadDir returns the entries sorted by file name: the stems of the
\* input files in that order
ReadDirOrder(stems) ==
    IF stems = {} THEN <<>>
    ELSE LET m == CHOOSE x \in stems :
                     \A y \in stems \ {x} : NameLess(FileName(x, "in"), FileName(y, "in"))
         IN <<m>> \o ReadDirOrder(stems \ {m})

\* os.ReadDir gives the names in order; an input file without a readable
\* output file is skipped
loadCachedTestCases(dir) ==
    IF ~dir.exists THEN [err |-> "ReadDir", testCases |-> <<>>]
    ELSE LET paired == { f.stem : f \in { f \in dir.files :
                             /\ f.ext = "in"
                             /\ \E g \in dir.files : g.ext = "out" /\ g.stem = f.stem } }
             order == ReadDirOrder(paired)
             data(n, ext) == (CHOOSE f \in dir.files : f.stem = n /\ f.ext = ext).data
         IN [err |-> "nil",
             testCases |-> [k \in 1..Len(order) |->
                              [Number |-> order[k], Input |-> data(order[k], "in"),
                               Expected |-> data(order[k], "out")]]]

\* mutant: the data is written without its surrounding white space
WriteFileTrimmed(files, f) ==
    { g \in files : ~(g.stem = f.stem /\ g.ext = f.ext) }
       \cup { [f EXCEPT !.data = TrimSpace(@)] }

\* os.WriteFile replaces a file of the same name
WriteFile(files, f) == { g \in files : ~(g.stem = f.stem /\ g.ext = f.ext) } \cup {f}

RECURSIVE WriteAll(_, _, _)
\* the first `budget` writes of cacheTestCases succeed
WriteAll(files, tcs, budget) ==
    IF Len(tcs) = 0 \/ budget = 0 THEN files
    ELSE LET tc == Head(tcs)
             one == WriteFile(files, File(tc.Number, "in", tc.Input))
         IN IF budget = 1 THEN one
            ELSE WriteAll(WriteFile(one, File(tc.Number, "out", tc.Expected)),
                          Tail(tcs), budget - 2)

\* failAt = 0: MkdirAll fails; failAt = k in 1..2n: the k-th write fails;
\* failAt > 2n: nothing fails
cacheTestCases(dir, tcs, failAt) ==
    IF failAt = 0 THEN [err |-> "MkdirAll", dir |-> dir]
    ELSE IF failAt <= 2 * Len(tcs)
    THEN [err |-> "WriteFile", dir |-> Dir(WriteAll(dir.files, tcs, failAt - 1))]
    ELSE [err |-> "nil", dir |-> Dir(WriteAll(dir.files, tcs, 2 * Len(tcs)))]

\* mutant: the cache is never taken as a hit
UseCachedNever(loaded) == FALSE

\* err == nil && len(testCases) > 0
UseCached(loaded) == loaded.err = "nil" /\ Len(loaded.testCases) > 0

\* -------------------------------------------------------- FetchTestCases
\* what one call can do and return, the environment being free:
\* [err, testCases, cache, sessionData, file, sent, calls, reply], reply
\* being the answer to the download request
AuthOutcomes(a, file) == { EnsureAuthenticated(a, file, env) : env \in AuthEnvs }

\* mutant: a failed cache write fails the fetch
AfterCacheStrict(tcs, cacheErr) ==
    IF cacheErr # "nil"
    THEN [err |-> "failed to cache test cases", testCases |-> <<>>]
    ELSE [err |-> "nil", testCases |-> tcs]

\* if err := f.cacheTestCases(...); err != nil { yellow.Printf(...) }
\* return testCases, nil
AfterCache(tcs, cacheErr) == [err |-> "nil", testCases |-> tcs]

\* fetchFromCSES, then cacheTestCases (its error is only printed)
fetchFromCSES(dir, a, file) ==
    UNION { IF auth.err # "nil"
            THEN { [err |-> "authentication required", testCases |-> <<>>, cache |-> dir,
                    sessionData |-> auth.sessionData, file |-> auth.file,
                    sent |-> auth.sent,
                    calls |-> {"EnsureAuthenticated"} \cup auth.calls,
                    reply |-> "none", fetched |-> <<>>, cacheErr |-> "none"] }
            ELSE UNION { LET dl == DownloadTestCases(auth.sessionData, reply.kind, reply.zip)
                             sent == AddRequests(auth.sent, dl.sent)
                             calls == {"EnsureAuthenticated", "DownloadTestCases"}
                                         \cup auth.calls
                         IN IF dl.err # "nil"
                            THEN { [err |-> "failed to download test cases",
                                    testCases |-> <<>>, cache |-> dir,
                                    sessionData |-> auth.sessionData, file |-> auth.file,
                                    sent |-> sent, calls |-> calls,
                                    reply |-> reply.kind, fetched |-> <<>>,
                                    cacheErr |-> "none"] }
                            ELSE UNION { IF x.err # "nil"
                                         THEN { [err |-> x.err, testCases |-> <<>>,
                                                 cache |-> dir,
                                                 sessionData |-> auth.sessionData,
                                                 file |-> auth.file, sent |-> sent,
                                                 calls |-> calls, reply |-> reply.kind,
                                                 fetched |-> <<>>, cacheErr |-> "none"] }
                                         ELSE { LET written == cacheTestCases(dir, x.testCases,
                                                                               failAt)
                                                    after == AfterCache(x.testCases, written.err)
                                                IN [err |-> after.err,
                                                    testCases |-> after.testCases,
                                                    cache |-> written.dir,
                                                    sessionData |-> auth.sessionData,
                                                    file |-> auth.file, sent |-> sent,
                                                    calls |-> calls \cup {"cacheTestCases"},
                                                    reply |-> reply.kind,
                                                    fetched |-> x.testCases,
                                                    cacheErr |-> written.err] :
                                                failAt \in 0..(2 * Len(x.testCases) + 1) }
                                         : x \in extractTestCasesFromZip(dl.zipData) }
                         : reply \in ({ [kind |-> k, zip |-> NoArchive] :
                                           k \in DownloadReplies \ {"zip"} }
                                      \cup { [kind |-> "zip", zip |-> z] : z \in Archives }) }
            : auth \in AuthOutcomes(a, file) }

FetchTestCases(dir, a, file) ==
    LET loaded == loadCachedTestCases(dir)
    IN IF UseCached(loaded)
       THEN { [err |-> "nil", testCases |-> loaded.testCases, cache |-> dir,
               sessionData |-> a, file |-> file, sent |-> NoRequests, calls |-> {},
               reply |-> "none", fetched |-> <<>>, cacheErr |-> "none"] }
       ELSE { [o EXCEPT !.err = IF @ = "nil" THEN "nil" ELSE "failed to fetch from CSES"] :
                 o \in fetchFromCSES(dir, a, file) }

\* ------------------------------------------------------------------- Run
\* mutant: a failed compilation does not end the run
ReturnsOnErrorButCompile(step, err) == err # "nil" /\ step # "compile"

\* if err != nil { return fmt.Errorf(...) }
ReturnsOnError(step, err) == err # "nil"

\* mutant: failed fixtures make Run fail
RunResultStrict(res) ==
    IF \E i \in 1..Len(res) : ~res[i].Passed THEN "tests failed" ELSE "nil"

\* displayResults(results) ; return nil
RunResult(res) == "nil"

\* one step of Run that calls `step`, which returned err
After(step, err, wrapped, next) ==
    /\ failures' = IF err # "nil" THEN failures \cup {step} ELSE failures
    /\ IF ReturnsOnError(step, err)
       THEN pc' = "returned" /\ runErr' = wrapped
       ELSE pc' = next /\ runErr' = runErr

\* os.MkdirAll(r.config.CacheDir, 0755)
RunMkdir ==
    /\ pc = "Run"
    /\ \E err \in {"nil", "mkdir"} :
          After("mkdir", err, "failed to create cache directory", "auth")
    /\ UNCHANGED <<cmdVars, harnessVars, sessionFile, rAuth, fAuth, cache, net, fetchInfo>>

\* r.auth.EnsureAuthenticated()
RunAuth ==
    /\ pc = "auth"
    /\ \E auth \in AuthOutcomes(rAuth, sessionFile) :
          /\ rAuth' = auth.sessionData
          /\ sessionFile' = auth.file
          /\ net' = AddRequests(net, auth.sent)
          /\ After("auth", auth.err, "authentication failed", "validateGo")
    /\ UNCHANGED <<cmdVars, harnessVars, fAuth, cache, fetchInfo>>

\* r.compiler.ValidateGo()
RunValidateGo ==
    /\ pc = "validateGo"
    /\ \E err \in {"nil", "Go is not installed or not in PATH"} :
          After("validateGo", err, "Go validation failed", "validateSyntax")
    /\ UNCHANGED <<cmdVars, harnessVars, sessionFile, rAuth, fAuth, cache, net, fetchInfo>>

\* r.compiler.ValidateSyntax()
RunValidateSyntax ==
    /\ pc = "validateSyntax"
    /\ \E err \in {"nil", "syntax validation failed"} :
          After("validateSyntax", err, "syntax validation failed", "fetch")
    /\ UNCHANGED <<cmdVars, harnessVars, sessionFile, rAuth, fAuth, cache, net, fetchInfo>>

\* r.fetcher.FetchTestCases(r.config.ProblemID) ; if len(testCases) == 0
RunFetch ==
    /\ pc = "fetch"
    /\ \E o \in FetchTestCases(cache, fAuth, sessionFile) :
          /\ fAuth' = o.sessionData
          /\ sessionFile' = o.file
          /\ cache' = o.cache
          /\ net' = AddRequests(net, o.sent)
          /\ fetchInfo' = [called |-> TRUE, before |-> cache, calls |-> o.calls,
                           sent |-> o.sent, reply |-> o.reply, err |-> o.err,
                           fetched |-> o.fetched, cacheErr |-> o.cacheErr]
          /\ testCases' = o.testCases
          /\ IF o.err = "nil" /\ Len(o.testCases) = 0
             THEN pc' = "returned" /\ runErr' = "nil" /\ failures' = failures
             ELSE After("fetch", o.err, "failed to fetch test cases", "compile")
    /\ UNCHANGED <<cmdVars, parallel, results, semaphore, wg, progressChan, completed, unit, ctx,
                   child, ret, gateOps, slotOps, deadlineFired, runTestsRet, rAuth>>

\* r.compiler.Compile()
RunCompile ==
    /\ pc = "compile"
    /\ \E err \in {"nil", "compilation failed", "executable not created"} :
          After("compile", err, "compilation failed", "runTests")
    /\ UNCHANGED <<cmdVars, harnessVars, sessionFile, rAuth, fAuth, cache, net, fetchInfo>>

\* r.displayResults(results) ; return nil
RunDisplay ==
    /\ pc = "runTestsDone"
    /\ pc' = "returned"
    /\ runErr' = RunResult(runTestsRet)
    /\ UNCHANGED <<cmdVars, harnessVars, sessionFile, rAuth, fAuth, cache, net, fetchInfo,
                   failures>>

RunStep ==
    \/ RunMkdir
    \/ RunAuth
    \/ RunValidateGo
    \/ RunValidateSyntax
    \/ RunFetch
    \/ RunCompile
    \/ RunDisplay

\* ------------------------------------------------------- the cache-dir
\* a path is the sequence of its pieces: names, separators and "~"
HomeDir == <<"/", "home", "/", "user">>
DefaultCacheDir == <<"~", "/", ".cache", "/", "cses-go-runner">>
AbsoluteCacheDir == <<"/", "tmp", "/", "cses">>
CacheDirFlags == {DefaultCacheDir, AbsoluteCacheDir}

RECURSIVE ReplaceFirst(_, _, _)
\* strings.Replace(path, old, new, 1)
ReplaceFirst(path, old, new) ==
    IF path = <<>> THEN <<>>
    ELSE IF Head(path) = old THEN new \o Tail(path)
    ELSE <<Head(path)>> \o ReplaceFirst(Tail(path), old, new)

\* enusureCacheDir: config.CacheDir becomes the flag value with "~" replaced
\* by the home directory
enusureCacheDir(flag) == ReplaceFirst(flag, "~", HomeDir)

\* no command or call has been made yet
NoCall == [op |-> "none"]

\* the flag default of -parallel
DefaultParallel == 4

\* the session files a run may find
SessionFiles ==
    { NoFile, Malformed,
      Stored(Session("s0", "t0", 1)),
      Stored(Session("s0", "t0", FreshnessWindow + 1)) }

\* the cache directories a run may find: none, an empty one, one with an
\* input file only, one with complete pairs
CacheDirs ==
    { NoDir, Dir({}), Dir({File(1, "in", TestCase(1).Input)}) }
    \cup { Dir(UNION { PairFiles(n) : n \in S }) : S \in SUBSET (1..MaxOrdinal) \ {{}} }

RunInit ==
    /\ parallel = DefaultParallel
    /\ testCases = <<>>
    /\ pc = "Run"
    /\ results = <<>>
    /\ semaphore = 0
    /\ wg = 0
    /\ progressChan = 0
    /\ completed = 0
    /\ unit = <<>>
    /\ ctx = <<>>
    /\ child = <<>>
    /\ ret = <<>>
    /\ gateOps = <<>>
    /\ slotOps = <<>>
    /\ deadlineFired = {}
    /\ runTestsRet = <<>>
    /\ sessionFile \in SessionFiles
    /\ rAuth = NilSession
    /\ fAuth = NilSession
    /\ cache \in CacheDirs
    /\ net = NoRequests
    /\ fetchInfo = [called |-> FALSE, before |-> NoDir, calls |-> {}, sent |-> NoRequests,
                   reply |-> "none", err |-> "nil", fetched |-> <<>>, cacheErr |-> "none"]
    /\ failures = {}
    /\ runErr = "none"
    /\ config \in [ForceAuth : BOOLEAN, cacheDirFlag : {DefaultCacheDir},
                    CacheDir : {enusureCacheDir(DefaultCacheDir)}]
    /\ call = NoCall

SpecRun == RunInit /\ [][RunStep \/ HarnessStep]_vars

\* ------------------------------------------------- the harness on its own
\* -parallel is not validated by main: any integer reaches runTests
ParallelValues == -1..MaxParallel

\* the fixture sequence in ascending and in descending order of ordinal (the
\* order of a fetched sequence is that of a map iteration: any order)
FixtureSeqs(n) ==
    { [k \in 1..n |-> TestCase(k)], [k \in 1..n |-> TestCase(n + 1 - k)] }

HarnessInit ==
    /\ parallel \in ParallelValues
    /\ testCases \in FixtureSeqs(NumTests)
    /\ pc = "runTests"
    /\ results = <<>>
    /\ semaphore = 0
    /\ wg = 0
    /\ progressChan = 0
    /\ completed = 0
    /\ unit = <<>>
    /\ ctx = <<>>
    /\ child = <<>>
    /\ ret = <<>>
    /\ gateOps = <<>>
    /\ slotOps = <<>>
    /\ deadlineFired = {}
    /\ runTestsRet = <<>>
    /\ sessionFile = NoFile
    /\ rAuth = NilSession
    /\ fAuth = NilSession
    /\ cache = NoDir
    /\ net = NoRequests
    /\ fetchInfo = [called |-> FALSE, before |-> NoDir, calls |-> {}, sent |-> NoRequests,
                   reply |-> "none", err |-> "nil", fetched |-> <<>>, cacheErr |-> "none"]
    /\ failures = {}
    /\ runErr = "none"
    /\ config = [ForceAuth |-> FALSE, cacheDirFlag |-> DefaultCacheDir,
                 CacheDir |-> enusureCacheDir(DefaultCacheDir)]
    /\ call = NoCall

SpecHarness == HarnessInit /\ [][HarnessStep]_vars


\* ------------------------------------------------------ harness properties
\* the unit goroutines that exist (none before runTests has spawned them)
\* ------------------------------------------- the stores and their commands
\* the authenticator rAuth of one process, the session file and the cache,
\* under the calls of the authenticator and the commands auth and clean

\* ClearSession: a.sessionData = nil ; os.Remove(a.sessionFile)
ClearSession(a, file, removed) ==
    IF removed \/ file.state = "absent"
    THEN [err |-> "nil", sessionData |-> NilSession, file |-> NoFile]
    ELSE [err |-> "failed to remove session file", sessionData |-> NilSession,
          file |-> file]

\* the session files the commands may find
StoredSessions ==
    { Session("s0", "t0", 1), Session("s0", "t0", FreshnessWindow),
      Session("s0", "t0", FreshnessWindow + 1),
      Session("", "t0", 1), Session("s0", "", 1) }
StoreFiles == {NoFile, Unreadable, Malformed} \cup { Stored(sd) : sd \in StoredSessions }

StoreInit ==
    /\ parallel = DefaultParallel
    /\ testCases = <<>>
    /\ pc = "commands"
    /\ results = <<>>
    /\ semaphore = 0
    /\ wg = 0
    /\ progressChan = 0
    /\ completed = 0
    /\ unit = <<>>
    /\ ctx = <<>>
    /\ child = <<>>
    /\ ret = <<>>
    /\ gateOps = <<>>
    /\ slotOps = <<>>
    /\ deadlineFired = {}
    /\ runTestsRet = <<>>
    /\ sessionFile \in StoreFiles
    /\ rAuth = NilSession
    /\ fAuth = NilSession
    /\ cache = Dir(PairFiles(1))
    /\ net = NoRequests
    /\ fetchInfo = [called |-> FALSE, before |-> NoDir, calls |-> {}, sent |-> NoRequests,
                   reply |-> "none", err |-> "nil", fetched |-> <<>>, cacheErr |-> "none"]
    /\ failures = {}
    /\ runErr = "none"
    /\ config \in { [ForceAuth |-> f, cacheDirFlag |-> d, CacheDir |-> enusureCacheDir(d)] :
                        f \in BOOLEAN, d \in CacheDirFlags }
    /\ call = NoCall

\* what is left alone by a call of the authenticator
StoreFrame ==
    /\ pc' = "called"
    /\ UNCHANGED <<harnessVars, fAuth, cache, net, fetchInfo, failures, runErr, config>>

\* a.EnsureAuthenticated()
CallEnsureAuthenticated ==
    /\ pc = "commands"
    /\ \E env \in AuthEnvs :
          LET r == EnsureAuthenticated(rAuth, sessionFile, env)
          IN /\ rAuth' = r.sessionData
             /\ sessionFile' = r.file
             /\ call' = [op |-> "EnsureAuthenticated", env |-> env, a |-> rAuth,
                         file |-> sessionFile, err |-> r.err, sent |-> r.sent,
                         calls |-> r.calls, force |-> FALSE]
    /\ StoreFrame

\* a.Login()
CallLogin ==
    /\ pc = "commands"
    /\ \E env \in { e \in AuthEnvs : e.probe = "ok" } :
          LET r == Login(rAuth, sessionFile, env)
          IN /\ rAuth' = r.sessionData
             /\ sessionFile' = r.file
             /\ call' = [op |-> "Login", env |-> env, a |-> rAuth,
                         file |-> sessionFile, err |-> r.err, sent |-> r.sent,
                         calls |-> {}, force |-> FALSE]
    /\ StoreFrame

\* a.ClearSession()
CallClearSession ==
    /\ pc = "commands"
    /\ \E removed \in BOOLEAN :
          LET r == ClearSession(rAuth, sessionFile, removed)
          IN /\ rAuth' = r.sessionData
             /\ sessionFile' = r.file
             /\ call' = [op |-> "ClearSession", a |-> rAuth, file |-> sessionFile,
                         err |-> r.err, sent |-> NoRequests, calls |-> {},
                         force |-> FALSE]
    /\ StoreFrame

\* a.DownloadTestCases(problemID)
CallDownloadTestCases ==
    /\ pc = "commands"
    /\ \E reply \in DownloadReplies :
       \E zip \in IF reply = "zip" THEN Archives ELSE {NoArchive} :
          LET r == DownloadTestCases(rAuth, reply, zip)
          IN call' = [op |-> "DownloadTestCases", reply |-> reply, a |-> rAuth,
                      file |-> sessionFile, err |-> r.err, zipData |-> r.zipData,
                      sent |-> r.sent, calls |-> {}, force |-> FALSE]
    /\ UNCHANGED <<rAuth, sessionFile>>
    /\ StoreFrame

\* the auth command: handleAuth(config) on a new authenticator
handleAuth ==
    /\ pc = "commands"
    /\ \E env \in AuthEnvs :
       \E removed \in IF config.ForceAuth THEN BOOLEAN ELSE {TRUE} :
          LET cleared == IF config.ForceAuth
                         THEN ClearSession(NilSession, sessionFile, removed)
                         ELSE [err |-> "nil", sessionData |-> NilSession,
                               file |-> sessionFile]
              r == EnsureAuthenticated(cleared.sessionData, cleared.file, env)
          IN /\ rAuth' = r.sessionData
             /\ sessionFile' = r.file
             /\ call' = [op |-> "auth", env |-> env, a |-> NilSession,
                         file |-> sessionFile, cleared |-> cleared.file,
                         err |-> IF r.err # "nil" THEN "authentication failed" ELSE "nil",
                         sent |-> r.sent,
                         calls |-> r.calls \cup (IF config.ForceAuth
                                                 THEN {"ClearSession"} ELSE {}),
                         force |-> config.ForceAuth]
    /\ StoreFrame

\* os.RemoveAll(path): the stores live under config.CacheDir
RemoveAll(path, session, dir, removed) ==
    IF ~removed THEN [err |-> "RemoveAll", file |-> session, cache |-> dir]
    ELSE IF path = config.CacheDir THEN [err |-> "nil", file |-> NoFile, cache |-> NoDir]
    ELSE [err |-> "nil", file |-> session, cache |-> dir]

\* the clean command: os.RemoveAll(*cacheDir)
clean ==
    /\ pc = "commands"
    /\ \E removed \in BOOLEAN :
          LET r == RemoveAll(config.cacheDirFlag, sessionFile, cache, removed)
          IN /\ sessionFile' = r.file
             /\ cache' = r.cache
             /\ call' = [op |-> "clean", file |-> sessionFile, cache |-> cache,
                         err |-> r.err, sent |-> NoRequests, calls |-> {},
                         force |-> FALSE]
    /\ pc' = "called"
    /\ UNCHANGED <<harnessVars, rAuth, fAuth, net, fetchInfo, failures, runErr, config>>

\* the age of a session after h more hours
Aged(sd, h) == IF sd.set THEN [sd EXCEPT !.Age = @ + h] ELSE sd

\* FreshnessWindow hours pass
Elapse ==
    /\ pc = "commands"
    /\ rAuth.set \/ sessionFile.state = "ok"
    /\ rAuth.Age <= 1 /\ sessionFile.data.Age <= 1
    /\ rAuth' = Aged(rAuth, FreshnessWindow)
    /\ sessionFile' = [sessionFile EXCEPT !.data = Aged(@, FreshnessWindow)]
    /\ UNCHANGED <<pc, call, harnessVars, fAuth, cache, net, fetchInfo, failures, runErr,
                   config>>

\* the call has returned, the command's process has ended
CallReturn ==
    /\ pc = "called"
    /\ pc' = "commands"
    /\ call' = NoCall
    /\ UNCHANGED <<harnessVars, pipeVars, config>>

StoreStep ==
    \/ CallEnsureAuthenticated
    \/ CallLogin
    \/ CallClearSession
    \/ CallDownloadTestCases
    \/ handleAuth
    \/ clean
    \/ Elapse
    \/ CallReturn

SpecStore == StoreInit /\ [][StoreStep]_vars

\* --------------------------------------------------- the archive parser
\* the largest number in the name of an archive entry
MaxEntry == 3

\* an entry of the archive: its name, as prefix, number and suffix, and
\* whether it is a directory
Entry(prefix, num, suffix) ==
    [prefix |-> prefix, num |-> num, suffix |-> suffix, isDir |-> FALSE]

\* entries that are no fixture half: number 0, an unknown prefix, another
\* suffix, a directory
OtherEntries ==
    { Entry("", 0, ".in"), Entry("x", 1, ".in"), Entry("", 1, ".txt"),
      [prefix |-> "d", num |-> 2, suffix |-> ".out", isDir |-> TRUE] }

\* the archives: input entries and output entries named with one of the
\* prefixes, among other entries
ZipFiles ==
    { { Entry(p, n, ".in") : n \in ins } \cup { Entry(p, n, ".out") : n \in outs }
         \cup other :
      p \in {"", "test", "input"}, ins \in SUBSET (1..MaxEntry),
      outs \in SUBSET (1..MaxEntry), other \in SUBSET OtherEntries }

\* strconv.Atoi succeeds on the base name, or on it without the prefix
\* "test", "input" or "output"; the number must be positive
parseTestNumber(entry) ==
    IF entry.prefix \in {"", "test", "input", "output"} /\ entry.num > 0
    THEN entry.num ELSE 0

\* the first loop of extractTestCasesFromZip: the keys of inputs and outputs
readZip(entries) ==
    LET files(suffix) == { e \in entries : ~e.isDir /\ e.suffix = suffix
                                              /\ parseTestNumber(e) > 0 }
    IN [ins |-> { parseTestNumber(e) : e \in files(".in") },
        outs |-> { parseTestNumber(e) : e \in files(".out") }]

\* f.extractTestCasesFromZip(zipData)
CallExtract ==
    /\ pc = "commands"
    /\ \E zip \in ZipFiles :
       \E x \in extractTestCasesFromZip(readZip(zip)) :
          call' = [op |-> "extractTestCasesFromZip", zip |-> zip, err |-> x.err,
                   testCases |-> x.testCases]
    /\ pc' = "called"
    /\ UNCHANGED <<harnessVars, pipeVars, config>>

\* the largest ordinal of a cached fixture
MaxStem == 10

\* the cache directories the fetcher may find: complete pairs, and input
\* files without their output file
FetcherDirs ==
    { Dir(UNION { PairFiles(n) : n \in S }
          \cup { File(n, "in", TestCase(n).Input) : n \in T }) :
      S \in SUBSET {1, 2, MaxStem - 1, MaxStem}, T \in SUBSET {3} }
    \cup {NoDir}

\* f.loadCachedTestCases(cacheDir)
CallLoadCached ==
    /\ pc = "commands"
    /\ \E dir \in FetcherDirs :
          LET x == loadCachedTestCases(dir)
          IN call' = [op |-> "loadCachedTestCases", dir |-> dir, err |-> x.err,
                      testCases |-> x.testCases]
    /\ pc' = "called"
    /\ UNCHANGED <<harnessVars, pipeVars, config>>

\* the largest number of fixtures written to the cache at once
MaxFixtures == 2

\* the texts of a fixture to be cached
FixtureTexts == { <<>>, <<"1", LF>>, <<SP, "1", SP, LF, LF>> }

\* the fixtures to be cached: any ordinal with any input and expected text
Fixtures ==
    [Number : {1, 2, MaxStem}, Input : FixtureTexts, Expected : FixtureTexts]

\* the fixture sequences with unique ordinals, of 1 to MaxFixtures fixtures
FixtureSets ==
    UNION { { q \in [1..n -> Fixtures] :
                 \A j, k \in 1..n : j # k => q[j].Number # q[k].Number } :
            n \in 1..MaxFixtures }

\* f.cacheTestCases(cacheDir, testCases) into an empty problem directory,
\* then f.loadCachedTestCases(cacheDir)
CallCacheRoundTrip ==
    /\ pc = "commands"
    /\ \E tcs \in FixtureSets :
       \E dir \in {NoDir, Dir({})} :
          LET written == cacheTestCases(dir, tcs, 2 * Len(tcs) + 1)
              loaded == loadCachedTestCases(written.dir)
          IN call' = [op |-> "cacheRoundTrip", testCases |-> tcs, dir |-> written.dir,
                      werr |-> written.err, err |-> loaded.err,
                      loaded |-> loaded.testCases]
    /\ pc' = "called"
    /\ UNCHANGED <<harnessVars, pipeVars, config>>

\* two calls of f.FetchTestCases(problemID) in a row, the problem directory
\* being empty or absent at first: the first call has extracted `fetched`
\* from the archive and its cacheTestCases fails at failAt or not at all;
\* the second call is taken whole
CallFetchAfterFetch ==
    /\ pc = "commands"
    /\ \E n \in 1..MaxFixtures :
       \E fetched \in FixtureSeqs(n) :
       \E dir \in {NoDir, Dir({})} :
       \E failAt \in 0..(2 * n + 1) :
          LET written == cacheTestCases(dir, fetched, failAt)
              first == AfterCache(fetched, written.err)
          IN \E o \in FetchTestCases(written.dir, NilSession, NoFile) :
                call' = [op |-> "fetchAfterFetch", fetched |-> first.testCases,
                         cacheErr |-> written.err, before |-> written.dir,
                         hit |-> UseCached(loadCachedTestCases(written.dir)),
                         err |-> o.err, sent |-> o.sent, returned |-> o.testCases]
    /\ pc' = "called"
    /\ UNCHANGED <<harnessVars, pipeVars, config>>

FetcherInit ==
    /\ StoreInit
    /\ sessionFile = NoFile
    /\ config.cacheDirFlag = DefaultCacheDir /\ ~config.ForceAuth

FetcherStep ==
    \/ CallExtract
    \/ CallLoadCached
    \/ CallCacheRoundTrip
    \/ CallFetchAfterFetch
    \/ CallReturn

SpecFetcher == FetcherInit /\ [][FetcherStep]_vars

\* ------------------------------------------------- the output comparison
\* the longest text handed to normalizeOutput
MaxLen == 4

\* the characters of a text: space, tab, CR, LF, another white-space
\* character, and a character that is not white space
Alphabet == {SP, TAB, CR, LF, VT, "a"}

TextsUpTo(n) == UNION { [1..k -> Alphabet] : k \in 0..n }

\* the text s with the character c put in after its first k characters
Insert(s, k, c) == SubSeq(s, 1, k) \o <<c>> \o SubSeq(s, k + 1, Len(s))

\* e.normalizeOutput(output)
CallNormalize ==
    /\ pc = "commands"
    /\ \E x \in TextsUpTo(MaxLen) :
          call' = [op |-> "normalizeOutput", x |-> x, result |-> normalizeOutput(x)]
    /\ pc' = "called"
    /\ UNCHANGED <<harnessVars, pipeVars, config>>

\* e.compareOutputs(actual, expected), on a text and the same text with one
\* more character somewhere, in both orders, and on a text and itself
CallCompare ==
    /\ pc = "commands"
    /\ \E s \in TextsUpTo(MaxLen - 1) :
       \E k \in 0..Len(s) :
       \E c \in Alphabet :
       \E pair \in { <<s, Insert(s, k, c)>>, <<Insert(s, k, c), s>>, <<s, s>> } :
          call' = [op |-> "compareOutputs", actual |-> pair[1], expected |-> pair[2],
                   result |-> compareOutputs(pair[1], pair[2])]
    /\ pc' = "called"
    /\ UNCHANGED <<harnessVars, pipeVars, config>>

ExecutorStep ==
    \/ CallNormalize
    \/ CallCompare
    \/ CallReturn

SpecExecutor == FetcherInit /\ [][ExecutorStep]_vars

Goroutines == DOMAIN unit

AllDone == Goroutines = Units /\ \A i \in Goroutines : unit[i] = "done"

\* C1: the result sequence has one slot per fixture, and slot i holds the
\* result of executing fixture i (zero until unit i has completed), in
\* whatever order the units complete; runTests returns that sequence once
\* every unit has completed.
C1_ResultOrder ==
    /\ pc \in {"wait", "runTestsDone"} =>
          /\ Len(results) = Len(testCases)
          /\ \A i \in Units :
                results[i] = IF unit[i] = "done"
                             THEN Execute(ret[i], testCases[i], i)
                             ELSE ZeroResult
    /\ pc = "runTestsDone" =>
          /\ AllDone
          /\ runTestsRet = results
          /\ Len(runTestsRet) = Len(testCases)

\* C1 witness: with 1 <= K <= N, a later fixture has completed before an
\* earlier one and its result sits in its own slot.
C1_Witness ==
    /\ pc = "wait"
    /\ parallel >= 1 /\ parallel <= Len(testCases)
    /\ \E i, j \in Units :
          /\ i < j
          /\ unit[j] = "done" /\ unit[i] # "done"
          /\ results[j].TestNumber = j
          /\ results[j].InputFile = testCases[j].Number

LiveChildren == {i \in Units : child[i] = Running}

\* C2: during a run the number of child processes that have been spawned
\* and have not exited never exceeds the configured parallelism.
C2_GateBound ==
    pc = "wait" => Cardinality(LiveChildren) <= parallel

\* C2 witness: K children run at once while another unit waits for a slot.
C2_Witness ==
    /\ pc = "wait"
    /\ parallel >= 1
    /\ Cardinality(LiveChildren) = parallel
    /\ \E i \in Units : unit[i] = "pending"

\* C3: a unit takes a slot at most once, gives back only a slot it took,
\* has given it back exactly once when it is done, whatever its result;
\* the slots in use are those of the admitted units that are not done, and
\* none is in use when runTests returns.
C3_SlotReleasedOnce ==
    /\ \A i \in DOMAIN gateOps :
          /\ gateOps[i].acquired <= 1
          /\ gateOps[i].released <= gateOps[i].acquired
          /\ unit[i] \in {"admitted", "inRun"} =>
                gateOps[i].acquired = 1 /\ gateOps[i].released = 0
          /\ unit[i] = "done" =>
                gateOps[i].acquired = 1 /\ gateOps[i].released = 1
    /\ pc = "wait" =>
          semaphore = Cardinality({i \in Units : unit[i] \in {"admitted", "inRun"}})
    /\ pc = "runTestsDone" => semaphore = 0

\* C3 witness: runTests has returned from a run with a timeout, a runtime
\* error or spawn error, and a pass or an output mismatch.
C3_Witness ==
    /\ pc = "runTestsDone"
    /\ \E i \in Units : results[i].Error = ErrTimeout
    /\ \E i \in Units :
          results[i].Passed \/ results[i].Error.msg \in {"Output mismatch",
                                                        "runtime error",
                                                        "execution failed"}

\* C4: for every accepted parallelism value the run never deadlocks and
\* never stops early: while runTests has not returned the full result set,
\* some goroutine of it can take a step.
C4_NeverStuck ==
    \/ pc = "runTestsDone" /\ AllDone /\ Len(runTestsRet) = Len(testCases)
    \/ ENABLED HarnessStep

\* C5: a result has Passed set exactly when the child exited with code 0,
\* cmd.Run reported no error and no timeout, and the normalized stdout
\* equals the normalized expected output; otherwise Error is not empty.
C5_PassedIff ==
    \A i \in Goroutines :
        unit[i] = "done" =>
            LET r == results[i]
                cleanExit == /\ child[i].kind = "exited"
                             /\ child[i].code = 0
                             /\ ret[i].err = NoError
            IN /\ r.Passed <=>
                    /\ cleanExit
                    /\ normalizeOutput(child[i].stdout)
                          = normalizeOutput(testCases[i].Expected)
               /\ ~r.Passed => r.Error # NoError

\* C5 witness: a passing result whose raw stdout differs from the expected
\* text, next to a failing one.
C5_Witness ==
    \E i, j \in Goroutines :
        /\ unit[i] = "done" /\ results[i].Passed
        /\ results[i].ActualOutput # results[i].ExpectedOutput
        /\ unit[j] = "done" /\ ~results[j].Passed

\* C6: a fixture whose child was still running at its deadline is reported
\* as a timeout; a child is killed, and a result is a timeout, only when the
\* unit's own deadline has elapsed, so each sibling's result is the one its
\* own child and its own deadline give.
C6_TimeoutIsolation ==
    \A i \in Goroutines :
        /\ child[i] = Killed => i \in deadlineFired
        /\ unit[i] = "done" =>
              /\ child[i] = Killed =>
                    results[i].Error = ErrTimeout /\ ~results[i].Passed
              /\ results[i].Error = ErrTimeout => i \in deadlineFired
              /\ results[i] =
                    Execute(runGoProgram(child[i], i \in deadlineFired,
                                         ret[i].err = ErrTimeout),
                            testCases[i], i)

\* C6 witness: a run has ended with one fixture timed out and a sibling of
\* it passed.
C6_Witness ==
    /\ pc = "runTestsDone"
    /\ \E i, j \in Units :
          /\ child[i] = Killed /\ results[i].Error = ErrTimeout
          /\ j # i /\ results[j].Passed /\ j \notin deadlineFired


\* ---------------------------------------------------------- run properties
\* the child processes of fixtures that have been spawned so far
SpawnedChildren == {i \in DOMAIN child : child[i].kind \in {"running", "exited", "killed"}}

\* the cache directory as the run found it
CacheAtStart == IF fetchInfo.called THEN fetchInfo.before ELSE cache

\* C7: once the fixtures are fetched and the executable is compiled, Run
\* returns no error whatever the fixtures' outcomes are; a fixture whose
\* child timed out, exited non-zero or could not be spawned is a failed
\* result with an error text.
C7_RunReturnsNil ==
    /\ (pc = "returned" /\ Goroutines # {}) => runErr = "nil"
    /\ (pc = "returned" /\ failures = {}) => runErr = "nil"
    /\ pc = "returned" =>
          \A i \in Goroutines :
              ~(child[i].kind = "exited" /\ child[i].code = 0) =>
                  ~runTestsRet[i].Passed /\ runTestsRet[i].Error # NoError

\* C7 witness: Run has returned nil from a run in which every fixture
\* failed, one of them by a timeout, a non-zero exit or a spawn error.
C7_Witness ==
    /\ pc = "returned"
    /\ runErr = "nil"
    /\ Goroutines # {}
    /\ \A i \in Goroutines : ~runTestsRet[i].Passed
    /\ \E i \in Goroutines : child[i].kind \in {"killed", "spawnfail"} \/ child[i].code # 0

\* C8: when authentication, fetching or compilation has failed, Run has
\* returned an error and no fixture unit was started nor child spawned.
C8_FailureAbortsBeforeSpawn ==
    failures \cap {"auth", "fetch", "compile"} # {} =>
        /\ pc = "returned"
        /\ runErr \notin {"nil", "none"}
        /\ Goroutines = {}
        /\ SpawnedChildren = {}

\* C8 witness: compilation failed after the fixtures had been fetched.
C8_Witness ==
    /\ "compile" \in failures
    /\ pc = "returned"
    /\ Len(testCases) > 0

\* the fixtures a directory holds as complete pairs
CachedPairs(dir) ==
    { [Number |-> f.stem, Input |-> f.data, Expected |-> g.data] :
         <<f, g>> \in { y \in dir.files \X dir.files :
                           y[1].ext = "in" /\ y[2].ext = "out" /\ y[1].stem = y[2].stem } }

\* C9: when the cache directory holds a complete pair, FetchTestCases
\* returns the cached fixtures without error, calls none of
\* EnsureAuthenticated, Login, TestSession, DownloadTestCases, sends no
\* request and leaves the cache as it was.
C9_CacheHitNoRemote ==
    (fetchInfo.called /\ HasCompletePair(fetchInfo.before)) =>
        /\ fetchInfo.calls = {}
        /\ fetchInfo.sent = NoRequests
        /\ cache = fetchInfo.before
        /\ "fetch" \notin failures
        /\ Len(testCases) = Cardinality(CachedPairs(fetchInfo.before))
        /\ { testCases[k] : k \in 1..Len(testCases) } = CachedPairs(fetchInfo.before)

\* C9 witness: FetchTestCases was called on a cache with a complete pair.
C9_Witness ==
    /\ fetchInfo.called
    /\ HasCompletePair(fetchInfo.before)
    /\ Len(testCases) > 0

\* C10: when the cache holds a complete pair for the problem, a whole run
\* sends no network request.
C10_CachedRunOffline ==
    (pc = "returned" /\ HasCompletePair(CacheAtStart)) => net = NoRequests

\* -------------------------------------------------------- store properties
\* the persisted session met by the latest call loads, has an identifier
\* and a token, and is at most FreshnessWindow hours old
LoadsFresh(file) ==
    /\ file.state = "ok"
    /\ file.data.PHPSessionID # "" /\ file.data.CSRFToken # ""
    /\ file.data.Age <= FreshnessWindow

\* the session data Login is entered with by EnsureAuthenticated
AfterLoad(c) == IF c.file.state = "ok" THEN c.file.data ELSE c.a

\* C11: EnsureAuthenticated returns ok without the login protocol (no GET
\* /login, no POST /login) exactly when the persisted session loads, is
\* fresh and the probe succeeds; in every other case it calls Login once and
\* returns that login's outcome.
C11_ReuseIffFreshAndLive ==
    call.op = "EnsureAuthenticated" =>
        LET reusable == LoadsFresh(call.file) /\ call.env.probe = "ok"
            noLogin == /\ call.err = "nil"
                       /\ "Login" \notin call.calls
                       /\ call.sent.loginGET = 0 /\ call.sent.loginPOST = 0
            login == Login(AfterLoad(call), call.file, call.env)
        IN /\ noLogin <=> reusable
           /\ reusable => /\ call.sent = [NoRequests EXCEPT !.probe = 1]
                           /\ sessionFile = call.file
                           /\ rAuth = call.file.data
           /\ ~reusable =>
                 /\ "Login" \in call.calls
                 /\ call.sent.loginGET <= 1 /\ call.sent.loginPOST <= 1
                 /\ call.err = login.err
                 /\ rAuth = login.sessionData
                 /\ sessionFile = login.file
                 /\ call.sent.loginGET = login.sent.loginGET
                 /\ call.sent.loginPOST = login.sent.loginPOST

\* C11 witness: a fresh persisted session was probed and reused.
C11_Witness ==
    /\ call.op = "EnsureAuthenticated"
    /\ LoadsFresh(call.file) /\ call.env.probe = "ok"
    /\ call.err = "nil"
    /\ call.sent.probe = 1 /\ call.sent.loginGET = 0

\* C12: a persisted session whose age is exactly FreshnessWindow hours is
\* not valid, so EnsureAuthenticated does not probe or reuse it and goes on
\* to Login.
C12_BoundaryExclusive ==
    (/\ call.op = "EnsureAuthenticated"
     /\ call.file.state = "ok"
     /\ call.file.data.Age = FreshnessWindow) =>
        /\ ~HasValidSession(call.file.data)
        /\ call.sent.probe = 0
        /\ "Login" \in call.calls

\* C13: when CSES_USERNAME or CSES_PASSWORD is absent or empty, Login
\* returns a credential error, sends no request at all, and leaves the
\* authenticator's session and the session file as they were; the same
\* holds of the Login made by EnsureAuthenticated, which is not retried.
C13_MissingCredentials ==
    /\ (call.op = "Login" /\ call.env.creds # "both") =>
          /\ call.err = "credential error"
          /\ call.sent = NoRequests
          /\ rAuth = call.a
          /\ sessionFile = call.file
    /\ (/\ call.op = "EnsureAuthenticated"
        /\ "Login" \in call.calls
        /\ call.env.creds # "both") =>
          /\ call.err = "credential error"
          /\ call.sent.loginGET = 0 /\ call.sent.loginPOST = 0
          /\ call.sent.probe <= 1
          /\ rAuth = AfterLoad(call)
          /\ sessionFile = call.file

\* C13 witness: Login was called with a username and no password.
C13_Witness ==
    /\ call.op = "Login"
    /\ call.env.creds = "noPassword"
    /\ call.err = "credential error"

\* the latest call went through Login
ThroughLogin == call.op = "Login" \/ (call.op = "EnsureAuthenticated" /\ "Login" \in call.calls)

\* the session data the Login of the latest call was entered with
LoginEntry == IF call.op = "Login" THEN call.a ELSE AfterLoad(call)

\* C14: when the login page has no anti-forgery token or the response has
\* no session cookie, Login returns an error, sends no POST and creates no
\* session; a session that Login puts in the authenticator or in the session
\* file has a non-empty identifier and a non-empty token.
C14_FailClosedExtraction ==
    ThroughLogin =>
        /\ (call.env.creds = "both" /\ call.env.page \in {"noToken", "noCookie"}) =>
              /\ call.err = "failed to fetch login page"
              /\ call.sent.loginGET = 1 /\ call.sent.loginPOST = 0
              /\ rAuth = LoginEntry
              /\ sessionFile = call.file
        /\ rAuth # LoginEntry =>
              rAuth.set /\ rAuth.PHPSessionID # "" /\ rAuth.CSRFToken # ""
        /\ sessionFile # call.file =>
              /\ sessionFile = Stored(rAuth)
              /\ rAuth.PHPSessionID # "" /\ rAuth.CSRFToken # ""

\* C14 witness: Login met a login page without a token.
C14_Witness ==
    /\ call.op = "Login"
    /\ call.env.creds = "both" /\ call.env.page = "noToken"
    /\ call.err # "nil"

\* C15: after the remote service was seen to reject the persisted session
\* (the probe answered "Please login", or a download was redirected to the
\* login path), that session is no longer in the session file, unless a new
\* login succeeded and stored its own.
C15_InvalidatedOnRejection ==
    /\ (/\ call.op = "EnsureAuthenticated"
        /\ call.sent.probe = 1 /\ call.env.probe = "pleaseLogin"
        /\ call.err # "nil") =>
          sessionFile # call.file
    /\ (call.op = "DownloadTestCases" /\ call.reply = "redirectLogin"
                                      /\ call.sent.download = 1) =>
          sessionFile.state # "ok"

\* C16: a download answered with a redirect to the login path makes
\* DownloadTestCases return the session-expired error and no bytes, and no
\* other answer gives that error.
C16_SessionExpiredDistinct ==
    (call.op = "DownloadTestCases" /\ call.sent.download = 1) =>
        /\ call.reply = "redirectLogin" <=>
              call.err = "session expired, requires re-authentication"
        /\ call.reply = "redirectLogin" => call.zipData = NoArchive

\* C17: when the download of a run is answered with a redirect to the login
\* path (the session has expired since it was confirmed), the run logs in
\* again and sends the download a second time.
C17_ReauthAndRetry ==
    (fetchInfo.called /\ fetchInfo.reply = "redirectLogin") =>
        fetchInfo.sent.download = 2

\* C18: with the force-auth option set, a run whose authentication step
\* has succeeded has gone through the login protocol (GET /login and POST
\* /login) instead of reusing the persisted session.
C18_ForceAuthLogsIn ==
    (config.ForceAuth /\ pc = "validateGo") =>
        net.loginGET = 1 /\ net.loginPOST = 1

\* C19: after the clean command has completed successfully, the cache
\* directory that run and auth use (config.CacheDir, the flag value after
\* home expansion) holds no cached fixture and no persisted session,
\* whatever the -cache-dir value, the default included.
C19_CleanEmptiesStores ==
    (call.op = "clean" /\ call.err = "nil") =>
        /\ sessionFile = NoFile
        /\ cache.files = {}

\* ------------------------------------------------------ parser properties
\* the numbers that appear in an archive as a fixture half with the suffix
EntryOrdinals(zip, suffix) ==
    { n \in 1..MaxEntry :
        \E e \in zip : /\ ~e.isDir /\ e.suffix = suffix /\ e.num = n
                        /\ e.prefix \in {"", "test", "input", "output"} }

C21_AscendingOrder ==
    (call.op \in {"extractTestCasesFromZip", "loadCachedTestCases"} /\ call.err = "nil") =>
        \A k \in 1..(Len(call.testCases) - 1) :
            call.testCases[k].Number < call.testCases[k + 1].Number

\* C22: a non-empty fixture set with unique positive ordinals, written by
\* cacheTestCases into an empty problem directory and read back by
\* loadCachedTestCases, comes back as the same set of (ordinal, input,
\* expected) triples: none missing, added or altered.
C22_CacheRoundTrip ==
    call.op = "cacheRoundTrip" =>
        /\ call.werr = "nil" /\ call.err = "nil"
        /\ Len(call.loaded) = Len(call.testCases)
        /\ { call.loaded[k] : k \in 1..Len(call.loaded) }
              = { call.testCases[k] : k \in 1..Len(call.testCases) }

\* C22 witness: two fixtures, the first with the larger ordinal and texts
\* with surrounding white space, were written and read back.
C22_Witness ==
    /\ call.op = "cacheRoundTrip"
    /\ Len(call.testCases) = 2
    /\ call.testCases[1].Number = MaxStem
    /\ call.testCases[1].Input = <<SP, "1", SP, LF, LF>>
    /\ call.testCases[2].Expected = <<>>
    /\ Len(call.loaded) = 2

\* ---------------------------------------------------- output properties
\* C23: normalizeOutput is idempotent: normalizing a normalized text gives
\* that text again, for texts of spaces, tabs, CR, LF, other white space and
\* other characters.
C23_NormalizeIdempotent ==
    call.op = "normalizeOutput" => normalizeOutput(call.result) = call.result

\* C23 witness: a text that normalization changes, with white space of
\* every kind, was normalized.
C23_Witness ==
    /\ call.op = "normalizeOutput"
    /\ call.x = <<VT, "a", TAB, LF>>
    /\ call.result = <<"a">>

RECURSIVE DropTrailingEmpty(_)
\* a sequence of lines without its trailing empty lines
DropTrailingEmpty(lines) ==
    IF Len(lines) > 0 /\ lines[Len(lines)] = <<>>
    THEN DropTrailingEmpty(SubSeq(lines, 1, Len(lines) - 1))
    ELSE lines

\* the lines of a text without their trailing spaces, tabs and CR, and
\* without the trailing blank lines
StripLines(x) ==
    LET lines == Split(x, LF)
    IN DropTrailingEmpty([k \in 1..Len(lines) |-> TrimRight(lines[k], LineCutset)])

\* t is s with one more space or tab inside a line between two characters
\* that are not white space, or with one more line break next to a line
\* break between two such characters
InteriorInsert(s, t) ==
    \E k \in 1..(Len(s) - 1) :
    \E c \in {SP, TAB, LF} :
        /\ t = Insert(s, k, c)
        /\ \E i \in 1..k : \E j \in (k + 1)..Len(s) :
              /\ s[i] \notin UnicodeSpace /\ s[j] \notin UnicodeSpace
              /\ IF c = LF
                 THEN s[k] = LF \/ s[k + 1] = LF
                 ELSE \A m \in i..j : s[m] # LF

\* C24: compareOutputs passes exactly when the two normalized texts are
\* equal; it passes when the texts differ only by trailing spaces, tabs or
\* CR at line ends and by trailing blank lines, and fails when they differ
\* by white space inside a line between other characters or by the number
\* of blank lines between two non-blank lines.
C24_CompareCriterion ==
    call.op = "compareOutputs" =>
        /\ call.result <=> normalizeOutput(call.actual) = normalizeOutput(call.expected)
        /\ StripLines(call.actual) = StripLines(call.expected) => call.result
        /\ (\/ InteriorInsert(call.actual, call.expected)
            \/ InteriorInsert(call.expected, call.actual)) => ~call.result

\* C24 witness: a pass on texts that differ by a trailing tab.
C24_Witness ==
    /\ call.op = "compareOutputs"
    /\ call.actual = <<"a", TAB, LF>>
    /\ call.expected = <<"a", LF>>
    /\ call.result

\* --------------------------------------------------- result properties
\* C25: the TestNumber of a result is the Number of the fixture that was
\* executed to produce it, the ordinal that names its input and expected
\* files.
C25_TestNumberIsOrdinal ==
    \A i \in Goroutines :
        unit[i] = "done" =>
            /\ results[i].TestNumber = testCases[i].Number
            /\ results[i].TestNumber = results[i].InputFile

\* C26: every index of results is written once at most, by the unit of
\* that index, and once exactly when that unit is done; the slots are read
\* only when every unit has signalled completion and has written.
C26_SlotsUnshared ==
    \A k \in DOMAIN slotOps :
        /\ slotOps[k].writers \in {<<>>, <<k>>}
        /\ unit[k] = "done" <=> slotOps[k].writers = <<k>>
        /\ slotOps[k].early = 0
        /\ slotOps[k].reads > 0 =>
              /\ \A j \in DOMAIN slotOps : slotOps[j].writers = <<j>>
              /\ wg = 0

\* C26 witness: with two units admitted together, both wrote their slots
\* and the slots were read.
C26_Witness ==
    /\ parallel = 2
    /\ Len(testCases) = 2
    /\ \A k \in DOMAIN slotOps : slotOps[k].writers = <<k>> /\ slotOps[k].reads = 1
    /\ pc = "runTestsDone"

\* ------------------------------------------------- degraded operations
\* C27: when the fixtures were fetched and the write to the cache failed
\* (MkdirAll or a file write), FetchTestCases returned the whole fetched
\* sequence and no error.
C27_CacheWriteFailureTolerated ==
    (fetchInfo.called /\ fetchInfo.cacheErr \in {"MkdirAll", "WriteFile"}) =>
        /\ fetchInfo.err = "nil"
        /\ testCases = fetchInfo.fetched
        /\ "fetch" \notin failures

\* C27 witness: a fetched fixture was returned although its expected file
\* could not be written.
C27_Witness ==
    /\ fetchInfo.called
    /\ fetchInfo.cacheErr = "WriteFile"
    /\ Len(testCases) = 1
    /\ ~HasCompletePair(cache)
    /\ "cacheTestCases" \in fetchInfo.calls

\* C28: when the session file is missing, unreadable or malformed,
\* EnsureAuthenticated does not probe and does not fail for that reason: it
\* runs the login protocol, and its error, its requests and what it leaves
\* in memory and in the file are those of that login.
C28_LoadFailureFallsThrough ==
    (call.op = "EnsureAuthenticated" /\ call.file.state \in {"absent", "unreadable", "malformed"}) =>
        LET l == Login(call.a, call.file, call.env)
        IN /\ call.calls = {"Login"}
           /\ call.err = l.err
           /\ call.sent = l.sent
           /\ rAuth = l.sessionData
           /\ sessionFile = l.file

\* C28 witness: with a malformed session file the call logged in and
\* stored a session.
C28_Witness ==
    /\ call.op = "EnsureAuthenticated"
    /\ call.file = Malformed
    /\ call.err = "nil"
    /\ call.sent.loginPOST = 1
    /\ sessionFile.state = "ok"

\* ---------------------------------------------- failure classification
\* C29: when the child of a unit exited by itself with a non-zero code
\* (hence before its deadline fired), the result is a failure that is not
\* the timeout failure, it carries that exit code, and its detail is the
\* stderr text when there is one and the generic execution failure
\* otherwise.
C29_NonZeroExitReported ==
    \A i \in Goroutines :
        (unit[i] = "done" /\ child[i].kind = "exited" /\ child[i].code # 0) =>
            /\ ~results[i].Passed
            /\ results[i].ExitCode = child[i].code
            /\ results[i].Error =
                  IF Len(child[i].stderr) > 0
                  THEN ErrRuntime(child[i].code, child[i].stderr)
                  ELSE ErrExecution(child[i].code)

\* C30: a result is the timeout failure only if the child was still
\* running when the deadline of its unit fired: never when the child had
\* exited by itself with a non-zero code before, however the exit, the
\* expiry and the check of the deadline by runGoProgram interleave.
C30_TimeoutOnlyIfRunning ==
    \A i \in Goroutines :
        (unit[i] = "done" /\ results[i].Error = ErrTimeout) =>
            ~(child[i].kind = "exited" /\ child[i].code # 0)

C32_CacheHitIsComplete ==
    (call.op = "fetchAfterFetch" /\ call.hit) =>
        { call.returned[k] : k \in 1..Len(call.returned) }
           = { call.fetched[k] : k \in 1..Len(call.fetched) }

\* ------------------------------------------------------- Login's frame
\* C33: when Login returns an error, the session in memory and the session
\* file are what they were before the call; when it returns no error, the
\* session file holds the identifier and the token of the session in
\* memory.
C33_LoginFrame ==
    call.op = "Login" =>
        IF call.err # "nil"
        THEN rAuth = call.a /\ sessionFile = call.file
        ELSE /\ sessionFile.state = "ok"
             /\ rAuth.set
             /\ sessionFile.data.PHPSessionID = rAuth.PHPSessionID
             /\ sessionFile.data.CSRFToken = rAuth.CSRFToken

====
